---- MODULE Spec2Model ----
(***************************************************************************)
(* Model of the bootc-image-builder action's build orchestrator            *)
(* (src/src/bib.ts): environment preparation, image pulls, argument        *)
(* synthesis for the builder run, artifact discovery, type conversion and  *)
(* concurrent checksum computation.                                        *)
(*                                                                         *)
(* JavaScript strings are modelled as sequences of one-character strings,  *)
(* so that split, join, trim and endsWith are computed as the code         *)
(* computes them.  The empty string is <<>>.                               *)
(***************************************************************************)
EXTENDS Integers, Sequences, FiniteSets, TLC

(***************************************************************************)
(* String literals of the source.                                          *)
(***************************************************************************)
\* 'podman'
S_podman ==
    <<"p","o","d","m","a","n">>
\* 'run'
S_run ==
    <<"r","u","n">>
\* '--rm'
S_rm ==
    <<"-","-","r","m">>
\* '--privileged'
S_privileged ==
    <<"-","-","p","r","i","v","i","l","e","g","e","d">>
\* '--security-opt label=type:unconfined_t'
S_security_opt ==
    <<"-","-","s","e","c","u","r","i","t","y","-","o","p","t"," ","l","a","b","e","l","=","t","y","p","e",":","u","n","c","o","n","f","i","n","e","d","_","t">>
\* '--volume /var/lib/containers/storage:/var/lib/containers/storage'
S_volume_storage ==
    <<"-","-","v","o","l","u","m","e"," ","/","v","a","r","/","l","i","b","/","c","o","n","t","a","i","n","e","r","s","/","s","t","o","r","a","g","e",":","/","v","a","r","/","l","i","b","/","c","o","n","t","a","i","n","e","r","s","/","s","t","o","r","a","g","e">>
\* '--volume'
S_volume ==
    <<"-","-","v","o","l","u","m","e">>
\* './output'
S_outputDirectory ==
    <<".","/","o","u","t","p","u","t">>
\* ':/output'
S_to_output ==
    <<":","/","o","u","t","p","u","t">>
\* ':/config.'
S_to_config ==
    <<":","/","c","o","n","f","i","g",".">>
\* ':ro'
S_ro ==
    <<":","r","o">>
\* 'build'
S_build ==
    <<"b","u","i","l","d">>
\* '--output /output'
S_output ==
    <<"-","-","o","u","t","p","u","t"," ","/","o","u","t","p","u","t">>
\* '--tls-verify false'
S_tls_verify_false ==
    <<"-","-","t","l","s","-","v","e","r","i","f","y"," ","f","a","l","s","e">>
\* '--chown'
S_chown ==
    <<"-","-","c","h","o","w","n">>
\* '--rootfs'
S_rootfs ==
    <<"-","-","r","o","o","t","f","s">>
\* '--type'
S_type ==
    <<"-","-","t","y","p","e">>
\* 'aws'
S_aws ==
    <<"a","w","s">>
\* '--env AWS_*'
S_env_aws ==
    <<"-","-","e","n","v"," ","A","W","S","_","*">>
\* '--aws-bucket'
S_aws_bucket ==
    <<"-","-","a","w","s","-","b","u","c","k","e","t">>
\* '--aws-ami-name'
S_aws_ami_name ==
    <<"-","-","a","w","s","-","a","m","i","-","n","a","m","e">>
\* '--aws-region'
S_aws_region ==
    <<"-","-","a","w","s","-","r","e","g","i","o","n">>
\* 'pull'
S_pull ==
    <<"p","u","l","l">>
\* '--tls-verify=false'
S_tls_verify_eq_false ==
    <<"-","-","t","l","s","-","v","e","r","i","f","y","=","f","a","l","s","e">>
\* '.json'
S_json ==
    <<".","j","s","o","n">>
\* 'bootiso'
S_bootiso ==
    <<"b","o","o","t","i","s","o">>
\* 'iso'
S_iso ==
    <<"i","s","o">>
\* 'vpc'
S_vpc ==
    <<"v","p","c">>
\* 'vhd'
S_vhd ==
    <<"v","h","d">>
\* 'image'
S_image ==
    <<"i","m","a","g","e">>
\* 'raw'
S_raw ==
    <<"r","a","w">>
\* 'undefined'
S_undefined ==
    <<"u","n","d","e","f","i","n","e","d">>
\* '/var/lib/containers/storage'
S_storage_dir ==
    <<"/","v","a","r","/","l","i","b","/","c","o","n","t","a","i","n","e","r","s","/","s","t","o","r","a","g","e">>
\* '/etc/containers'
S_containers_dir ==
    <<"/","e","t","c","/","c","o","n","t","a","i","n","e","r","s">>
\* '/etc/containers/storage.conf'
S_storage_conf ==
    <<"/","e","t","c","/","c","o","n","t","a","i","n","e","r","s","/","s","t","o","r","a","g","e",".","c","o","n","f">>
\* '/w'
S_cwd ==
    <<"/","w">>
\* 'manifest.json'
N_manifest ==
    <<"m","a","n","i","f","e","s","t",".","j","s","o","n">>
\* 'disk.vhd'
N_disk_vhd ==
    <<"d","i","s","k",".","v","h","d">>
\* 'install.iso'
N_install_iso ==
    <<"i","n","s","t","a","l","l",".","i","s","o">>
\* 'disk.raw'
N_disk_raw ==
    <<"d","i","s","k",".","r","a","w">>
\* 'disk.qcow2'
N_disk_qcow2 ==
    <<"d","i","s","k",".","q","c","o","w","2">>
\* 'extra.img'
N_extra ==
    <<"e","x","t","r","a",".","i","m","g">>
\* 'qcow2'
T_qcow2 ==
    <<"q","c","o","w","2">>
\* ' qcow2'
T_qcow2_sp ==
    <<" ","q","c","o","w","2">>
\* 'ami'
T_ami ==
    <<"a","m","i">>
\* 'c.toml'
P_c_toml ==
    <<"c",".","t","o","m","l">>
\* 'config'
P_config ==
    <<"c","o","n","f","i","g">>
\* 'a.b.json'
P_a_b_json ==
    <<"a",".","b",".","j","s","o","n">>
\* '1:1'
V_chown ==
    <<"1",":","1">>
\* 'xfs'
V_rootfs ==
    <<"x","f","s">>
\* '--x'
V_arg ==
    <<"-","-","x">>
\* '--x  --y'
V_args_2sp ==
    <<"-","-","x"," "," ","-","-","y">>
\* 'x'
V_ami ==
    <<"x">>
\* 'y'
V_bucket ==
    <<"y">>
\* 'eu'
V_region ==
    <<"e","u">>
\* 'img'
V_image ==
    <<"i","m","g">>
\* 'bib'
V_builder ==
    <<"b","i","b">>
\* 'anaconda-iso'
S_anaconda_iso ==
    <<"a","n","a","c","o","n","d","a","-","i","s","o">>

(***************************************************************************)
(* JavaScript values and string primitives.                                *)
(***************************************************************************)
\* the value undefined (an absent optional property)
UNDEFINED == <<"<undefined>">>

SP == " "

Whitespace == {" ", "\t", "\n"}

\* truthiness of a string-or-undefined value: '' and undefined are falsy
Truthy(v) == v # UNDEFINED /\ v # <<>>

\* `${v}` : interpolation of a string-or-undefined value into a template
ToStr(v) == IF v = UNDEFINED THEN S_undefined ELSE v

\* concatenation of a list of strings
RECURSIVE Cat(_)
Cat(parts) ==
    IF parts = <<>> THEN <<>> ELSE Head(parts) \o Cat(Tail(parts))

\* String.prototype.split(sep) for a one-character separator
RECURSIVE Split(_, _)
Split(s, sep) ==
    IF \A i \in 1..Len(s) : s[i] # sep
    THEN <<s>>
    ELSE LET i == CHOOSE k \in 1..Len(s) :
                      s[k] = sep /\ \A j \in 1..(k-1) : s[j] # sep
         IN  <<SubSeq(s, 1, i-1)>> \o Split(SubSeq(s, i+1, Len(s)), sep)

\* Array.prototype.join(sep)
RECURSIVE Join(_, _)
Join(list, sep) ==
    IF list = <<>> THEN <<>>
    ELSE IF Len(list) = 1 THEN Head(list)
    ELSE Head(list) \o <<sep>> \o Join(Tail(list), sep)

\* String.prototype.trim()
RECURSIVE Trim(_)
Trim(s) ==
    IF s = <<>> THEN <<>>
    ELSE IF s[1] \in Whitespace THEN Trim(Tail(s))
    ELSE IF s[Len(s)] \in Whitespace THEN Trim(SubSeq(s, 1, Len(s)-1))
    ELSE s

\* String.prototype.endsWith(suffix)
EndsWith(s, suffix) ==
    /\ Len(s) >= Len(suffix)
    /\ SubSeq(s, Len(s) - Len(suffix) + 1, Len(s)) = suffix

\* Array.prototype.pop() used as an expression: the last element, or
\* undefined for an empty array
Pop(list) == IF list = <<>> THEN UNDEFINED ELSE list[Len(list)]

\* Array.prototype.includes(x)
Includes(list, x) == \E i \in 1..Len(list) : list[i] = x

\* Array.prototype.filter((arg) => arg)
FilterTruthy(list) == SelectSeq(list, LAMBDA a : Truthy(a))

\* optional chaining options.awsOptions?.field
AwsField(aws, field) == IF aws.defined THEN aws[field] ELSE UNDEFINED

(***************************************************************************)
(* Argument synthesis of build(), bib.ts lines 64-118.                     *)
(***************************************************************************)
\* the config-file mount, bib.ts lines 76-78
ConfigVolume(options) ==
    Cat(<<S_volume, <<SP>>, options.configFilePath, S_to_config,
          ToStr(Pop(Split(options.configFilePath, "."))), S_ro>>)

\* bibTypeArgs, bib.ts lines 87-92
BibTypeArgs(options) ==
    IF options.types # UNDEFINED /\ Len(options.types) > 0
    THEN LET kept == SelectSeq(options.types, LAMBDA type : Trim(type) # <<>>)
         IN  [i \in 1..Len(kept) |-> Cat(<<S_type, <<SP>>, kept[i]>>)]
    ELSE <<>>

\* the condition of bib.ts line 95
IncludesAws(options) ==
    options.types # UNDEFINED /\ Includes(options.types, S_aws)

\* podmanArgs with the builder image pushed before the AWS environment flag
PodmanArgs_imageBeforeEnv(options) ==
    <<S_run, S_rm, S_privileged, S_security_opt, S_volume_storage,
      Cat(<<S_volume, <<SP>>, S_outputDirectory, S_to_output>>),
      ConfigVolume(options)>>
    \o <<options.builderImage>>
    \o (IF IncludesAws(options) THEN <<S_env_aws>> ELSE <<>>)

\* podmanArgs as pushed by bib.ts lines 68-78, 96, 108
PodmanArgs(options) ==
    <<S_run, S_rm, S_privileged, S_security_opt, S_volume_storage,
      Cat(<<S_volume, <<SP>>, S_outputDirectory, S_to_output>>),
      ConfigVolume(options)>>
    \o (IF IncludesAws(options) THEN <<S_env_aws>> ELSE <<>>)
    \o <<options.builderImage>>

\* the AWS flags, bib.ts lines 98-104
AwsArgs(options) ==
    <<Cat(<<S_aws_bucket, <<SP>>,
            ToStr(AwsField(options.awsOptions, "BucketName"))>>),
      Cat(<<S_aws_ami_name, <<SP>>,
            ToStr(AwsField(options.awsOptions, "AMIName"))>>),
      IF Truthy(AwsField(options.awsOptions, "Region"))
      THEN Cat(<<S_aws_region, <<SP>>,
                 ToStr(AwsField(options.awsOptions, "Region"))>>)
      ELSE <<>> >>

\* bibArgs as pushed by bib.ts lines 80-85, 93, 98-104, 109
BibArgs(options) ==
    <<S_build, S_output,
      IF options.tlsVerify THEN <<>> ELSE S_tls_verify_false,
      IF Truthy(options.chown)
      THEN Cat(<<S_chown, <<SP>>, options.chown>>) ELSE <<>>,
      IF Truthy(options.rootfs)
      THEN Cat(<<S_rootfs, <<SP>>, options.rootfs>>) ELSE <<>>,
      IF Truthy(options.additionalArgs) THEN options.additionalArgs ELSE <<>> >>
    \o BibTypeArgs(options)
    \o (IF IncludesAws(options) THEN AwsArgs(options) ELSE <<>>)
    \o <<options.image>>

\* the argument list handed to execAsRoot for the build run,
\* bib.ts lines 114-117
BuildCommand(options) ==
    Split(Join(FilterTruthy(PodmanArgs(options) \o BibArgs(options)), SP), SP)

\* the argument list of pullImage, bib.ts lines 154-157
PullCommand(image, tlsVerify) ==
    FilterTruthy(<<S_pull,
                   IF tlsVerify THEN <<>> ELSE S_tls_verify_eq_false,
                   image>>)

(***************************************************************************)
(* Artifact collection, bib.ts lines 121-228.                              *)
(***************************************************************************)
\* path.resolve(p) for a relative path without '..' segments
Resolve(p) ==
    LET segs == SelectSeq(Split(p, "/"), LAMBDA s : s # <<>> /\ s # <<".">>)
    IN  IF segs = <<>> THEN S_cwd ELSE Cat(<<S_cwd, <<"/">>, Join(segs, "/")>>)

\* the bytes createReadStream(filePath) delivers
ReadFile(filePath) == <<"bytes of">> \o filePath

\* hash.digest('hex') after the whole stream was fed to the hash
Sha256(bytes) == <<"sha256 of">> \o bytes

\* the switch of bib.ts lines 193-205
ConvertType(type) ==
    IF type = S_bootiso THEN S_iso
    ELSE IF type = S_vpc THEN S_vhd
    ELSE IF type = S_image THEN S_raw
    ELSE type

\* the filter of bib.ts line 173
IsArtifactFile(file) == file.isFile /\ ~EndsWith(file.name, S_json)

\* an Error object, and a thrown or rejected value that is a plain string
ErrorObject(message) == [isError |-> TRUE, message |-> message]

PlainString(text) == [isError |-> FALSE, message |-> text]

NoError == [isError |-> FALSE, message |-> "none"]

\* (error as Error).message : a string primitive has no message property
MessageOf(error) == IF error.isError THEN error.message ELSE "undefined"

\* the state of one promise of bib.ts line 172 right after the map callback
\* ran up to its first await (lines 175-210)
StartArtifact(file) ==
    LET fileName == Pop(Split(file.name, "/"))
        type     == Pop(Split(file.parentPath, "/"))
    IN  IF ~Truthy(fileName)
        THEN [state |-> "rejected", type |-> <<>>, path |-> <<>>,
              checksum |-> UNDEFINED,
              reason |-> ErrorObject("Failed to extract file name from artifact path")]
        ELSE IF ~Truthy(type)
        THEN [state |-> "rejected", type |-> <<>>, path |-> <<>>,
              checksum |-> UNDEFINED,
              reason |-> ErrorObject("Failed to extract type from artifact path")]
        ELSE [state |-> "pending", type |-> ConvertType(type),
              path |-> Resolve(Cat(<<file.parentPath, <<"/">>, file.name>>)),
              checksum |-> UNDEFINED, reason |-> NoError]

\* the promises of bib.ts lines 172-213, in the order of the listing
StartArtifacts(files) ==
    LET kept == SelectSeq(files, IsArtifactFile)
    IN  [i \in 1..Len(kept) |-> StartArtifact(kept[i])]

\* the value a fulfilled promise carries, bib.ts line 212
ArtifactOf(p) == [type |-> p.type, path |-> p.path, checksum |-> p.checksum]

\* a Promise.all that is fulfilled as soon as one input promise is
PromiseAllFulfilled_any(ps) == \E i \in 1..Len(ps) : ps[i].state = "fulfilled"

\* Promise.all is fulfilled once every input promise is fulfilled
PromiseAllFulfilled(ps) == \A i \in 1..Len(ps) : ps[i].state = "fulfilled"

\* resolved values collected in the order in which the promises settled
ResolvedArtifacts_settleOrder(ps, order) ==
    [i \in 1..Len(order) |-> ArtifactOf(ps[order[i]])]

\* the array Promise.all yields: the values in the order of the input
\* promises, whatever the order in which they settled
ResolvedArtifacts(ps, order) == [i \in 1..Len(ps) |-> ArtifactOf(ps[i])]

\* Map.prototype.has / Map.prototype.set on a map kept as its entries in
\* insertion order
MapHas(map, key) == \E i \in 1..Len(map) : map[i].type = key

MapSet(map, key, value) ==
    IF MapHas(map, key)
    THEN [i \in 1..Len(map) |-> IF map[i].type = key THEN value ELSE map[i]]
    ELSE Append(map, value)

\* the forEach of bib.ts lines 219-225
RECURSIVE ArtifactMap(_, _)
ArtifactMap(resolved, map) ==
    IF resolved = <<>> THEN map
    ELSE LET artifact == Head(resolved)
         IN  ArtifactMap(Tail(resolved),
                         IF MapHas(map, artifact.type) THEN map
                         ELSE MapSet(map, artifact.type, artifact))

\* manifestPath of bib.ts lines 127-129
ManifestName(files) ==
    LET found == SelectSeq(files,
                     LAMBDA f : f.isFile /\ EndsWith(f.name, S_json))
    IN  IF found = <<>> THEN UNDEFINED ELSE found[1].name

\* the value build() returns from its catch block, bib.ts lines 142-146
EmptyResult ==
    [manifestPath |-> <<>>, outputDirectory |-> <<>>, outputArtifacts |-> <<>>]

\* the value build() returns on success, bib.ts lines 134-138
BuildResult(files, map) ==
    [manifestPath |-> Cat(<<S_outputDirectory, <<"/">>, ToStr(ManifestName(files))>>),
     outputDirectory |-> S_outputDirectory,
     outputArtifacts |-> map]

(***************************************************************************)
(* Bounds and input domains.                                               *)
(***************************************************************************)
\* longest requested type list
MaxTypes == 2

\* most entries in the listing of the output directory
MaxFiles == 3

SeqsUpTo(S, n) == UNION {[1..k -> S] : k \in 0..n}

TypeEntries == {T_qcow2, T_qcow2_sp, <<>>, S_aws, T_ami}

TypeLists == {UNDEFINED} \cup SeqsUpTo(TypeEntries, MaxTypes)

AwsChoices ==
    { [defined |-> FALSE, AMIName |-> UNDEFINED, BucketName |-> UNDEFINED,
       Region |-> UNDEFINED],
      [defined |-> TRUE, AMIName |-> V_ami, BucketName |-> V_bucket,
       Region |-> UNDEFINED],
      [defined |-> TRUE, AMIName |-> V_ami, BucketName |-> V_bucket,
       Region |-> V_region],
      [defined |-> TRUE, AMIName |-> V_ami, BucketName |-> <<>>,
       Region |-> <<>>] }

\* requests for the argument-synthesis properties
AllOptions ==
    [configFilePath : {P_c_toml, P_config, P_a_b_json},
     image : {V_image}, builderImage : {V_builder},
     additionalArgs : {UNDEFINED, V_arg, V_args_2sp},
     chown : {UNDEFINED, V_chown}, rootfs : {UNDEFINED, V_rootfs},
     tlsVerify : BOOLEAN, types : TypeLists, awsOptions : AwsChoices]

\* requests for the pipeline properties
PipelineOptions ==
    [configFilePath : {P_c_toml}, image : {V_image}, builderImage : {V_builder},
     additionalArgs : {UNDEFINED}, chown : {UNDEFINED}, rootfs : {UNDEFINED},
     tlsVerify : BOOLEAN, types : {<<T_qcow2>>},
     awsOptions : {[defined |-> FALSE, AMIName |-> UNDEFINED,
                    BucketName |-> UNDEFINED, Region |-> UNDEFINED]}]

Dirent(name, dir, isFile) ==
    [name |-> name,
     parentPath |-> IF dir = <<>> THEN S_outputDirectory
                    ELSE Cat(<<S_outputDirectory, <<"/">>, dir>>),
     isFile |-> isFile]

\* entries the builder can leave under ./output
Candidates ==
    { Dirent(N_manifest, <<>>, TRUE),
      Dirent(S_vpc, <<>>, FALSE),
      Dirent(N_disk_vhd, S_vpc, TRUE),
      Dirent(N_disk_vhd, S_vhd, TRUE),
      Dirent(N_install_iso, S_bootiso, TRUE),
      Dirent(N_disk_raw, S_image, TRUE),
      Dirent(N_disk_qcow2, T_qcow2, TRUE),
      Dirent(N_extra, T_qcow2, TRUE) }

\* listings fs.readdir can return: distinct entries, in any order; the
\* entries of the type directories themselves are left out except for one,
\* since both isFile() filters drop them
Listings ==
    {l \in SeqsUpTo(Candidates, MaxFiles) :
        \A i, j \in 1..Len(l) : i # j => l[i] # l[j]}

(***************************************************************************)
(* State.                                                                  *)
(***************************************************************************)
VARIABLES
    options,    \* the BootcImageBuilderOptions build() was called with
    tree,       \* what the output directory holds once the builder has run
    pc,         \* the await build() is suspended at, or "returned"
    calls,      \* the utils.js / fs calls issued so far, with their outcome
    failed,     \* the messages passed to core.setFailed, in order
    caught,     \* the value bound to `error` in build()'s catch block
    promises,   \* the promises of extractArtifactTypes, in listing order
    settled,    \* indices of the promises that settled after an await, in order
    result      \* the value build() returned

vars == <<options, tree, pc, calls, failed, caught, promises, settled, result>>

Call(op, args, ok) == [op |-> op, args |-> args, ok |-> ok]

\* the Error a failing utils.js or fs call throws
CallFailure(op) == ErrorObject(op)

InitState ==
    /\ pc = "deleteStorage"
    /\ calls = <<>>
    /\ failed = <<>>
    /\ caught = NoError
    /\ promises = <<>>
    /\ settled = <<>>
    /\ result = EmptyResult

\* pipeline runs: few requests, every listing
Init ==
    /\ options \in PipelineOptions
    /\ tree \in Listings
    /\ InitState

\* argument synthesis runs: every request, one listing
InitArgs ==
    /\ options \in AllOptions
    /\ tree = <<Dirent(N_manifest, <<>>, TRUE), Dirent(N_disk_qcow2, T_qcow2, TRUE)>>
    /\ InitState

(***************************************************************************)
(* build(), bib.ts lines 43-148.                                           *)
(***************************************************************************)
\* the catch block of build(), bib.ts lines 139-147
Catch(error) ==
    /\ caught' = error
    /\ failed' = Append(failed, [context |-> "Build process failed",
                                 subject |-> <<>>,
                                 message |-> MessageOf(error)])
    /\ result' = EmptyResult
    /\ pc' = "returned"

\* an awaited call whose failure is swallowed: build() moves on regardless
AwaitedCall_swallow(at, op, args, next) ==
    /\ pc = at
    /\ \E ok \in BOOLEAN : calls' = Append(calls, Call(op, args, ok))
    /\ pc' = next
    /\ UNCHANGED <<options, tree, failed, caught, promises, settled, result>>

\* a call build() awaits directly: on failure the error reaches the catch block
AwaitedCall(at, op, args, next) ==
    /\ pc = at
    /\ \E ok \in BOOLEAN :
        /\ calls' = Append(calls, Call(op, args, ok))
        /\ IF ok
           THEN pc' = next /\ UNCHANGED <<failed, caught, result>>
           ELSE Catch(CallFailure(op))
    /\ UNCHANGED <<options, tree, promises, settled>>

\* githubActionsWorkaroundFixes, bib.ts lines 258-268
DeleteStorage ==
    AwaitedCall("deleteStorage", "deleteDirectory", <<S_storage_dir>>,
                "createConfigDir")

CreateConfigDir ==
    AwaitedCall("createConfigDir", "createDirectory", <<S_containers_dir>>,
                "writeStorageConf")

WriteStorageConf ==
    AwaitedCall("writeStorageConf", "writeToFile", <<S_storage_conf>>,
                "pullBuilder")

\* pullImage, bib.ts lines 151-162: a failure is reported and not rethrown
pullImage(at, image, next) ==
    /\ pc = at
    /\ \E ok \in BOOLEAN :
        /\ calls' = Append(calls,
                        Call("execAsRoot",
                             <<S_podman>> \o PullCommand(image, options.tlsVerify),
                             ok))
        /\ failed' = IF ok THEN failed
                     ELSE Append(failed,
                              [context |-> "Failed to pull image",
                               subject |-> image,
                               message |-> MessageOf(CallFailure("execAsRoot"))])
    /\ pc' = next
    /\ UNCHANGED <<options, tree, caught, promises, settled, result>>

\* bib.ts line 52
PullBuilder == pullImage("pullBuilder", options.builderImage, "pullTarget")

\* bib.ts line 53
PullTarget == pullImage("pullTarget", options.image, "createOutputDir")

\* bib.ts line 58
CreateOutputDir ==
    AwaitedCall("createOutputDir", "createDirectory", <<S_outputDirectory>>,
                "run")

\* bib.ts lines 64-119: argument synthesis and the builder run
RunBuilder ==
    AwaitedCall("run", "execAsRoot", <<S_podman>> \o BuildCommand(options),
                "readdir")

\* build() returns its result (bib.ts lines 134-138) once extractArtifactTypes
\* has assembled the map (lines 216-227)
ReturnResult(ps, order) ==
    /\ result' = BuildResult(tree, ArtifactMap(ResolvedArtifacts(ps, order), <<>>))
    /\ pc' = "returned"
    /\ UNCHANGED <<failed, caught>>

\* bib.ts lines 121-132: fs.readdir, the manifest lookup and the synchronous
\* part of extractArtifactTypes up to `await Promise.all`
ReadOutputDir ==
    /\ pc = "readdir"
    /\ \E ok \in BOOLEAN :
        /\ calls' = Append(calls, Call("readdir", <<S_outputDirectory>>, ok))
        /\ IF ~ok
           THEN Catch(CallFailure("readdir")) /\ UNCHANGED promises
           ELSE LET ps == StartArtifacts(tree)
                    rejected == {i \in 1..Len(ps) : ps[i].state = "rejected"}
                IN  /\ promises' = ps
                    /\ IF rejected # {}
                       THEN Catch(ps[CHOOSE i \in rejected :
                                        \A j \in rejected : i <= j].reason)
                       ELSE IF PromiseAllFulfilled(ps)
                       THEN ReturnResult(ps, <<>>)
                       ELSE pc' = "checksum" /\ UNCHANGED <<failed, caught, result>>
    /\ UNCHANGED <<options, tree, settled>>

\* generateSHA256Checksum, bib.ts lines 244-255: the stream of promise i ends;
\* when build() is still waiting and this was the last digest, Promise.all
\* is fulfilled and build() returns
DigestEnd(i) ==
    /\ pc \in {"checksum", "returned"}
    /\ i \in 1..Len(promises)
    /\ promises[i].state = "pending"
    /\ LET ps == [promises EXCEPT ![i].state = "fulfilled",
                                  ![i].checksum = Sha256(ReadFile(promises[i].path))]
           order == Append(settled, i)
       IN  /\ promises' = ps
           /\ settled' = order
           /\ IF pc = "checksum" /\ PromiseAllFulfilled(ps)
              THEN ReturnResult(ps, order)
              ELSE UNCHANGED <<pc, failed, caught, result>>
    /\ UNCHANGED <<options, tree, calls>>

\* generateSHA256Checksum, bib.ts lines 250-252: the stream of promise i fails
\* and the promise is rejected with a string; when build() is still waiting,
\* Promise.all is rejected and build()'s catch block runs
DigestError(i) ==
    /\ pc \in {"checksum", "returned"}
    /\ i \in 1..Len(promises)
    /\ promises[i].state = "pending"
    /\ LET reason == PlainString("Failed to generate checksum")
       IN  /\ promises' = [promises EXCEPT ![i].state = "rejected",
                                           ![i].reason = reason]
           /\ settled' = Append(settled, i)
           /\ IF pc = "checksum"
              THEN Catch(reason)
              ELSE UNCHANGED <<pc, failed, caught, result>>
    /\ UNCHANGED <<options, tree, calls>>

Next ==
    \/ DeleteStorage
    \/ CreateConfigDir
    \/ WriteStorageConf
    \/ PullBuilder
    \/ PullTarget
    \/ CreateOutputDir
    \/ RunBuilder
    \/ ReadOutputDir
    \/ \E i \in 1..MaxFiles : DigestEnd(i)
    \/ \E i \in 1..MaxFiles : DigestError(i)

Spec == Init /\ [][Next]_vars

SpecArgs == InitArgs /\ [][Next]_vars

(***************************************************************************)
(* Properties.                                                             *)
(***************************************************************************)
Last(s) == s[Len(s)]

IsPull(c) == c.op = "execAsRoot" /\ Len(c.args) >= 2 /\ c.args[2] = S_pull

IsRun(c) == c.op = "execAsRoot" /\ Len(c.args) >= 2 /\ c.args[2] = S_run

\* build() returned from its try block
Succeeded == pc = "returned" /\ caught = NoError

\* a occurs in list as a contiguous run of tokens
ContainsSeq(list, a) ==
    \E k \in 0..(Len(list) - Len(a)) : SubSeq(list, k + 1, k + Len(a)) = a

\* the tokens that directly follow an occurrence of flag, in order
TokensAfter(list, flag) ==
    LET idx == SelectSeq([i \in 1..Len(list) |-> i],
                         LAMBDA i : list[i] = flag /\ i < Len(list))
    IN  [k \in 1..Len(idx) |-> list[idx[k] + 1]]

StartsWith(s, prefix) ==
    Len(s) >= Len(prefix) /\ SubSeq(s, 1, Len(prefix)) = prefix

\* position of promise i in the order of settlement, 0 when it has not settled
SettledAt(i) ==
    IF \E k \in 1..Len(settled) : settled[k] = i
    THEN CHOOSE k \in 1..Len(settled) : settled[k] = i
    ELSE 0

\* C1: build() never throws; whenever environment preparation, the builder
\* run, the output-directory read, type extraction or a checksum fails, it
\* reports exactly that failure through setFailed and returns the all-empty
\* result, and a result with a non-empty field is returned only when none
\* of these steps failed.
C1_FailureReportedExactly ==
    pc = "returned" =>
        /\ caught # NoError =>
              /\ result = EmptyResult
              /\ failed # <<>>
              /\ Last(failed) = [context |-> "Build process failed",
                                 subject |-> <<>>,
                                 message |-> caught.message]
        /\ result # EmptyResult =>
              /\ caught = NoError
              /\ \A i \in 1..Len(calls) : ~IsPull(calls[i]) => calls[i].ok
              /\ \A i \in 1..Len(promises) : promises[i].state = "fulfilled"

\* C2: once a pull has failed, no further pull and no builder run is issued,
\* and build() returns the empty result together with the error.
C2_PullFailureIsFatal ==
    \A i \in 1..Len(calls) :
        (IsPull(calls[i]) /\ ~calls[i].ok) =>
            /\ \A j \in (i+1)..Len(calls) : ~IsPull(calls[j]) /\ ~IsRun(calls[j])
            /\ pc = "returned" => result = EmptyResult

\* C3: the result is assembled only after every digest has completed: every
\* artifact of a successfully returned result carries the checksum of its
\* file, no discovered artifact type is missing from the map, nothing is
\* assembled while build() still waits for digests, and a failed digest
\* makes build() return the empty result with the failure reported.
C3_ResultAfterAllDigests ==
    /\ Succeeded =>
          /\ \A i \in 1..Len(promises) : promises[i].state = "fulfilled"
          /\ \A k \in 1..Len(result.outputArtifacts) :
                result.outputArtifacts[k].checksum =
                    Sha256(ReadFile(result.outputArtifacts[k].path))
          /\ \A i \in 1..Len(promises) :
                MapHas(result.outputArtifacts, promises[i].type)
    /\ pc = "checksum" => result = EmptyResult
    /\ (pc = "returned" /\ \E i \in 1..Len(promises) : promises[i].state = "rejected")
          => result = EmptyResult /\ failed # <<>>

\* C3 witness: a successful build of at least two artifacts whose digests
\* finished in an order other than the listing order
C3_Witness ==
    /\ Succeeded
    /\ Len(result.outputArtifacts) >= 2
    /\ settled[1] # 1

\* C4: when "ami" is requested with bucket y and AMI name x, the builder
\* arguments contain --aws-bucket y --aws-ami-name x, followed by
\* --aws-region <region> exactly when a region was supplied; when "ami" is
\* not requested none of these flags appear.
C4_AmiFlags ==
    \A i \in 1..Len(calls) :
        IsRun(calls[i]) =>
            LET a   == calls[i].args
                aws == options.awsOptions
            IN  IF options.types # UNDEFINED /\ Includes(options.types, T_ami)
                THEN (aws.defined /\ Truthy(aws.BucketName) /\ Truthy(aws.AMIName)) =>
                        /\ ContainsSeq(a, <<S_aws_bucket, aws.BucketName,
                                            S_aws_ami_name, aws.AMIName>>
                                          \o (IF Truthy(aws.Region)
                                              THEN <<S_aws_region, aws.Region>>
                                              ELSE <<>>))
                        /\ Truthy(aws.Region) <=> Includes(a, S_aws_region)
                ELSE /\ ~Includes(a, S_aws_bucket)
                     /\ ~Includes(a, S_aws_ami_name)
                     /\ ~Includes(a, S_aws_region)

\* the request asks for AMI publishing
AmiRequested ==
    /\ options.types # UNDEFINED
    /\ Includes(options.types, T_ami) \/ Includes(options.types, S_aws)

\* C5: when AMI publishing is requested and the AWS options lack an AMI name
\* or a bucket name, the builder run is never started and build() returns
\* the empty result plus an error.
C5_FailFastWithoutAwsOptions ==
    (/\ AmiRequested
     /\ \/ ~options.awsOptions.defined
        \/ ~Truthy(options.awsOptions.AMIName)
        \/ ~Truthy(options.awsOptions.BucketName))
    => /\ \A i \in 1..Len(calls) : ~IsRun(calls[i])
       /\ pc = "returned" => result = EmptyResult /\ failed # <<>>

\* the reference mapping of C6
ReferenceType(dir) ==
    IF dir = S_bootiso THEN S_anaconda_iso
    ELSE IF dir = S_vpc THEN S_vhd
    ELSE IF dir = S_image THEN S_raw
    ELSE dir

\* C6: the key under which an artifact appears in the result map is the
\* reference mapping of its parent-directory name: bootiso -> anaconda-iso,
\* vpc -> vhd, image -> raw, every other name unchanged.
C6_KeysFollowReferenceMapping ==
    Succeeded =>
        \A k \in 1..Len(result.outputArtifacts) :
            \E n \in 1..Len(tree) :
                /\ IsArtifactFile(tree[n])
                /\ Resolve(Cat(<<tree[n].parentPath, <<"/">>, tree[n].name>>))
                      = result.outputArtifacts[k].path
                /\ result.outputArtifacts[k].type
                      = ReferenceType(Pop(Split(tree[n].parentPath, "/")))

\* C7: the keys of the artifact map are unique and the first artifact in
\* listing order wins: each key holds the artifact of the first promise, in
\* listing order, of that type, whatever the order in which digests finish.
C7_FirstOccurrenceWins ==
    Succeeded =>
        LET map  == result.outputArtifacts
            kept == SelectSeq(tree, IsArtifactFile)
        IN  /\ \A a, b \in 1..Len(map) : a # b => map[a].type # map[b].type
            /\ Len(promises) = Len(kept)
            /\ \A i \in 1..Len(promises) : MapHas(map, promises[i].type)
            /\ \A k \in 1..Len(map) :
                  \E i \in 1..Len(promises) :
                      /\ promises[i].type = map[k].type
                      /\ \A j \in 1..(i-1) : promises[j].type # map[k].type
                      /\ map[k].path =
                            Resolve(Cat(<<kept[i].parentPath, <<"/">>, kept[i].name>>))

\* C7 witness: a successful build in which two files normalize to the same
\* type and the later one's digest finished first
C7_Witness ==
    /\ Succeeded
    /\ \E i, j \in 1..Len(promises) :
          /\ i < j
          /\ promises[i].type = promises[j].type
          /\ promises[i].path # promises[j].path
          /\ SettledAt(j) < SettledAt(i)

\* C8: the builder arguments contain exactly one --type <name> pair per
\* non-blank requested entry, <name> being the trimmed entry, in the
\* requested order, duplicates kept.
C8_TypePairs ==
    \A i \in 1..Len(calls) :
        IsRun(calls[i]) =>
            LET entries == IF options.types = UNDEFINED THEN <<>> ELSE options.types
                kept    == SelectSeq(entries, LAMBDA e : Trim(e) # <<>>)
            IN  /\ TokensAfter(calls[i].args, S_type)
                     = [k \in 1..Len(kept) |-> Trim(kept[k])]
                /\ Len(SelectSeq(calls[i].args, LAMBDA t : t = S_type)) = Len(kept)

\* C9: without AWS types the run arguments hold exactly one volume mount of
\* the config file, named /config.<ext> with <ext> the last dot-delimited
\* segment of the config path, or /config when the path has no dot.
C9_ConfigMount ==
    \A i \in 1..Len(calls) :
        (IsRun(calls[i]) /\ ~AmiRequested) =>
            LET cfg    == options.configFilePath
                target == SubSeq(S_to_config, 1, Len(S_to_config) - 1)
                mounts == SelectSeq(TokensAfter(calls[i].args, S_volume),
                              LAMBDA m : StartsWith(m, cfg \o target))
                segs   == Split(cfg, ".")
            IN  /\ Len(mounts) = 1
                /\ mounts[1] = Cat(<<cfg, target,
                                     IF Len(segs) > 1
                                     THEN <<".">> \o segs[Len(segs)] ELSE <<>>,
                                     S_ro>>)

\* C10: the argument list of the build run never contains an empty token.
C10_NoEmptyToken ==
    \A i \in 1..Len(calls) :
        IsRun(calls[i]) =>
            \A k \in 1..Len(calls[i].args) : calls[i].args[k] # <<>>

IsCall(c, op, target) == c.op = op /\ c.args = <<target>>

\* C11: the phases run in order without overlap: the storage directory is
\* removed, the config directory created and storage.conf written, all
\* successfully, before any pull is issued; both pulls have finished before
\* the builder run is issued; the output directory is read only after the
\* builder run has returned successfully; and at most one call is issued
\* per phase step.
C11_PhaseOrder ==
    /\ \A i \in 1..Len(calls) :
          /\ i = 1 => IsCall(calls[i], "deleteDirectory", S_storage_dir)
          /\ i = 2 => IsCall(calls[i], "createDirectory", S_containers_dir)
          /\ i = 3 => IsCall(calls[i], "writeToFile", S_storage_conf)
          /\ i > 1 /\ i <= 4 => calls[i-1].ok
          /\ IsPull(calls[i]) => i \in {4, 5}
          /\ IsRun(calls[i]) =>
                /\ i = 7
                /\ IsPull(calls[4]) /\ calls[4].args[Len(calls[4].args)] = options.builderImage
                /\ IsPull(calls[5]) /\ calls[5].args[Len(calls[5].args)] = options.image
                /\ IsCall(calls[6], "createDirectory", S_outputDirectory)
                /\ calls[6].ok
          /\ calls[i].op = "readdir" =>
                /\ i = 8
                /\ IsRun(calls[7])
                /\ calls[7].ok
    /\ Len(calls) <= 8
    /\ Len(promises) > 0 =>
          /\ Len(calls) = 8
          /\ calls[8].op = "readdir"
          /\ calls[8].ok

\* C11 witness: the output directory has been read and the digests started
C11_Witness ==
    /\ pc = "checksum"
    /\ Len(calls) = 8
    /\ calls[8].op = "readdir"
    /\ Len(promises) >= 2

\* tokens that are options of the container runtime
RuntimeOptions ==
    {S_rm, S_privileged, <<"-","-","s","e","c","u","r","i","t","y","-","o","p","t">>,
     S_volume, <<"-","-","e","n","v">>}

\* tokens that are flags of the builder
BuilderFlags ==
    {<<"-","-","o","u","t","p","u","t">>,
     <<"-","-","t","l","s","-","v","e","r","i","f","y">>,
     S_chown, S_rootfs, S_type, S_aws_bucket, S_aws_ami_name, S_aws_region}
    \cup (IF Truthy(options.additionalArgs)
          THEN {t \in {Split(options.additionalArgs, SP)[k] :
                          k \in 1..Len(Split(options.additionalArgs, SP))} : t # <<>>}
          ELSE {})

\* C12: in the command of the build run every runtime option precedes the
\* builder image reference, the builder image reference immediately precedes
\* 'build', every builder flag follows 'build', and the target image
\* reference is the last token.
C12_CommandOrder ==
    \A i \in 1..Len(calls) :
        IsRun(calls[i]) =>
            LET a == calls[i].args
            IN  \E b \in 3..(Len(a) - 2) :
                    /\ a[b] = options.builderImage
                    /\ a[b + 1] = S_build
                    /\ a[Len(a)] = options.image
                    /\ \A k \in 1..Len(a) :
                          /\ a[k] \in RuntimeOptions => k < b
                          /\ a[k] \in BuilderFlags => k > b + 1
                    /\ \A o \in RuntimeOptions \ {<<"-","-","e","n","v">>} :
                          Includes(a, o)
                    /\ IncludesAws(options) <=> Includes(a, <<"-","-","e","n","v">>)
                    /\ Includes(a, <<"-","-","o","u","t","p","u","t">>)
                    /\ Truthy(options.chown) <=> Includes(a, S_chown)
                    /\ Truthy(options.rootfs) <=> Includes(a, S_rootfs)
                    /\ ~options.tlsVerify <=>
                          Includes(a, <<"-","-","t","l","s","-","v","e","r","i","f","y">>)

\* C12 witness: a build run with AWS publishing, extra arguments, chown and
\* rootfs has been issued
C12_Witness ==
    /\ \E i \in 1..Len(calls) : IsRun(calls[i])
    /\ IncludesAws(options)
    /\ options.awsOptions.defined
    /\ Truthy(options.awsOptions.Region)
    /\ options.additionalArgs = V_args_2sp
    /\ Truthy(options.chown)
    /\ Truthy(options.rootfs)
    /\ ~options.tlsVerify
====
